---------------------------- MODULE Spec2Model ----------------------------
(***************************************************************************)
(* A model of the notebook understanding-aircraft-accidents-brazil.py:     *)
(* the four tables read from Cenipa, the three cleanup cells, and every    *)
(* aggregate and chart cell, executed top to bottom.  A cell that raises   *)
(* stops the run.                                                          *)
(*                                                                         *)
(* Strings on which the code performs character operations (dates, times,  *)
(* coordinates, the occurrence-type category) are sequences of one         *)
(* character strings; categorical strings that are only compared are TLA+  *)
(* strings.  A cell of a table is a record with a type tag t.              *)
(***************************************************************************)
EXTENDS Integers, Sequences, FiniteSets, TLC

VARIABLES
    remote,                 \* the four CSV resources as pd.read_csv parses them
    pc,                     \* index in Cells of the next cell to execute
    err,                    \* the exception that stopped the run, or NoError
    df_tipo_ocorrencia,
    df_aeronave,
    df_fator_contribuinte,
    df_ocorrencia,
    g,                      \* the notebook's other global names
    out                     \* what has been displayed or handed to a renderer

vars == <<remote, pc, err, df_tipo_ocorrencia, df_aeronave,
          df_fator_contribuinte, df_ocorrencia, g, out>>

tables == <<df_tipo_ocorrencia, df_aeronave, df_fator_contribuinte, df_ocorrencia>>

---------------------------------------------------------------------------
(* Bounds of the model.                                                    *)

MaxOcorrencias == 2
MaxAeronaves == 3
MaxTipos == 2
MaxFatores == 2
MaxLen == 3

---------------------------------------------------------------------------
(* Generic helpers on sequences.                                           *)

RECURSIVE SeqsUpTo(_, _)
SeqsUpTo(S, n) ==
    IF n = 0 THEN {<<>>}
    ELSE LET shorter == SeqsUpTo(S, n - 1)
         IN  shorter \cup {Append(s, x) : s \in {t \in shorter : Len(t) = n - 1}, x \in S}

Reverse(s) == [i \in 1..Len(s) |-> s[Len(s) - i + 1]]

Range(s) == {s[i] : i \in DOMAIN s}

MinOf(S) == CHOOSE x \in S : \A y \in S : x <= y
MaxOf(S) == CHOOSE x \in S : \A y \in S : x >= y

---------------------------------------------------------------------------
(* Cells.                                                                  *)

\* numpy.nan: a float.  One marker per column representation.
NaNnum == [t |-> "nan", v |-> 0]
NaNchars == [t |-> "nan", v |-> <<>>]

StrCell(s) == [t |-> "str", v |-> s]
IntCell(n) == [t |-> "int", v |-> n]

notna(c) == c.t # "nan"

\* A coordinate cell: a string, an integer, a float (mantissa m with e
\* decimals, m * 10^-e) or NaN.
CoordStr(s) == [t |-> "str", s |-> s, m |-> 0, e |-> 0]
CoordInt(n) == [t |-> "int", s |-> <<>>, m |-> n, e |-> 0]
CoordFloat(m, e) == [t |-> "float", s |-> <<>>, m |-> m, e |-> e]
CoordNaN == [t |-> "nan", s |-> <<>>, m |-> 0, e |-> 0]

\* isinstance(x, float): NaN is a float.
IsFloat(c) == c.t \in {"float", "nan"}
\* isinstance(x, str)
IsStr(c) == c.t = "str"

\* An exception propagating out of an expression.
Raise(type) == [t |-> "raise", exc |-> type]
Raised(x) == x.t = "raise"

---------------------------------------------------------------------------
(* Characters.                                                             *)

Digits == {"0", "1", "2", "3", "4", "5", "6", "7", "8", "9"}

DigitVal(c) ==
    CASE c = "0" -> 0 [] c = "1" -> 1 [] c = "2" -> 2 [] c = "3" -> 3
      [] c = "4" -> 4 [] c = "5" -> 5 [] c = "6" -> 6 [] c = "7" -> 7
      [] c = "8" -> 8 [] c = "9" -> 9

DigitChar(n) ==
    CASE n = 0 -> "0" [] n = 1 -> "1" [] n = 2 -> "2" [] n = 3 -> "3"
      [] n = 4 -> "4" [] n = 5 -> "5" [] n = 6 -> "6" [] n = 7 -> "7"
      [] n = 8 -> "8" [] n = 9 -> "9"

AllDigits(s) == Len(s) > 0 /\ \A i \in DOMAIN s : s[i] \in Digits

RECURSIVE Number(_)
Number(s) ==
    IF s = <<>> THEN 0
    ELSE 10 * Number(SubSeq(s, 1, Len(s) - 1)) + DigitVal(s[Len(s)])

\* The index of the first c in s, or Len(s) + 1.
Find(s, c) ==
    IF \E i \in DOMAIN s : s[i] = c
    THEN MinOf({i \in DOMAIN s : s[i] = c})
    ELSE Len(s) + 1

\* str.split(sep): the list of the parts between the separators.
RECURSIVE split(_, _)
split(s, sep) ==
    LET k == Find(s, sep)
    IN  IF k > Len(s) THEN <<s>>
        ELSE <<SubSeq(s, 1, k - 1)>> \o split(SubSeq(s, k + 1, Len(s)), sep)

\* str.strip(): without the leading and trailing whitespace.
strip(s) ==
    LET inked == {i \in DOMAIN s : s[i] # " "}
    IN  IF inked = {} THEN <<>>
        ELSE SubSeq(s, MinOf(inked), MaxOf(inked))

---------------------------------------------------------------------------
(* datetime.strptime(s, '%d/%m/%Y %H:%M:%S')                               *)

DaysInMonth(y, m) ==
    IF m = 2 THEN (IF (y % 4 = 0 /\ y % 100 # 0) \/ y % 400 = 0 THEN 29 ELSE 28)
    ELSE IF m \in {4, 6, 9, 11} THEN 30 ELSE 31

\* A directive of one or two digits (%d, %m, %H, %M, %S) with its range.
Field2(s, lo, hi) ==
    AllDigits(s) /\ Len(s) \in {1, 2} /\ Number(s) \in lo..hi

Timestamp(y, mo, d, h, mi, sec) ==
    [t |-> "ts", year |-> y, month |-> mo, day |-> d,
     hour |-> h, minute |-> mi, second |-> sec]

\* The format is matched against the whole string: day/month/year, white
\* space, hour:minute:second.  Anything else, or a day the month does not
\* have, raises ValueError.
strptime(s) ==
    LET sp == Find(s, " ")
        datePart == SubSeq(s, 1, sp - 1)
        afterDate == SubSeq(s, sp, Len(s))
        inked == {i \in DOMAIN afterDate : afterDate[i] # " "}
        timePart == IF inked = {} THEN <<>>
                    ELSE SubSeq(afterDate, MinOf(inked), Len(afterDate))
        dmy == split(datePart, "/")
        hms == split(timePart, ":")
    IN  IF /\ sp <= Len(s)
           /\ Len(dmy) = 3
           /\ Len(hms) = 3
           /\ Field2(dmy[1], 1, 31)
           /\ Field2(dmy[2], 1, 12)
           /\ AllDigits(dmy[3]) /\ Len(dmy[3]) = 4 /\ Number(dmy[3]) >= 1
           /\ Field2(hms[1], 0, 23)
           /\ Field2(hms[2], 0, 59)
           /\ Field2(hms[3], 0, 59)
           /\ Number(dmy[1]) <= DaysInMonth(Number(dmy[3]), Number(dmy[2]))
        THEN Timestamp(Number(dmy[3]), Number(dmy[2]), Number(dmy[1]),
                       Number(hms[1]), Number(hms[2]), Number(hms[3]))
        ELSE Raise("ValueError")

\* '00:00:00'
Midnight == <<"0", "0", ":", "0", "0", ":", "0", "0">>

\* The default time taken to be noon.
HoraOrMidnight_noon(hora) ==
    IF IsStr(hora) THEN hora.v ELSE <<"1", "2", ":", "0", "0", ":", "0", "0">>

\* row['ocorrencia_hora'] if isinstance(row['ocorrencia_hora'], str) else '00:00:00'
HoraOrMidnight(hora) ==
    IF IsStr(hora) THEN hora.v ELSE Midnight

\* A merge that puts a default timestamp where the date does not parse.
ocorrencia_data_of_lenient(row) ==
    IF ~IsStr(row.ocorrencia_dia) THEN Raise("TypeError")
    ELSE LET ts == strptime(row.ocorrencia_dia.v \o <<" ">> \o HoraOrMidnight(row.ocorrencia_hora))
         IN  IF Raised(ts) THEN Timestamp(1, 1, 1, 0, 0, 0) ELSE ts

\* The lambda of the cleanup cell, applied to one row.  Adding a str to a
\* float (a missing date) raises TypeError.
ocorrencia_data_of(row) ==
    IF ~IsStr(row.ocorrencia_dia) THEN Raise("TypeError")
    ELSE strptime(row.ocorrencia_dia.v \o <<" ">> \o HoraOrMidnight(row.ocorrencia_hora))

\* a >= b on timestamps: by day, then by second of the day.
TsGE(a, b) ==
    LET DayKey(ts) == (ts.year * 12 + (ts.month - 1)) * 31 + (ts.day - 1)
        SecKey(ts) == (ts.hour * 60 + ts.minute) * 60 + ts.second
    IN  DayKey(a) > DayKey(b) \/ (DayKey(a) = DayKey(b) /\ SecKey(a) >= SecKey(b))

\* The calendar month of a timestamp, counted from year 0.
MonthOf(ts) == ts.year * 12 + (ts.month - 1)

---------------------------------------------------------------------------
(* locale.atof under en_US.UTF-8                                           *)

\* locale.delocalize: the thousands separator ',' is removed; the decimal
\* point of the locale is already '.'.
delocalize(s) == SelectSeq(s, LAMBDA c : c # ",")

\* float(s) on the characters that occur in the coordinate columns: an
\* optional sign, digits with at most one point and at least one digit,
\* surrounding whitespace ignored.  Anything else raises ValueError.
float(s) ==
    LET b == strip(s)
        signed == b # <<>> /\ b[1] \in {"-", "+"}
        body == IF signed THEN Tail(b) ELSE b
        p == Find(body, ".")
        intPart == SubSeq(body, 1, p - 1)
        fracPart == SubSeq(body, p + 1, Len(body))
        digits == intPart \o fracPart
    IN  IF AllDigits(digits)
        THEN CoordFloat((IF signed /\ b[1] = "-" THEN -1 ELSE 1) * Number(digits),
                        Len(fracPart))
        ELSE Raise("ValueError")

\* locale.atof(x): float(delocalize(x)); delocalize calls x.replace, which
\* only a str has.
atof(x) ==
    IF IsStr(x) THEN float(delocalize(x.s)) ELSE Raise("AttributeError")

clean_float(original) ==
    IF IsFloat(original) THEN original
    ELSE LET r == atof(original)
         IN  IF Raised(r) /\ r.exc = "ValueError" THEN CoordNaN ELSE r

---------------------------------------------------------------------------
(* The lambda of the category cleanup: t.split('|')[0].strip()             *)

\* str.lstrip() in the place of str.strip().
strip_left_only(s) ==
    LET inked == {i \in DOMAIN s : s[i] # " "}
    IN  IF inked = {} THEN <<>>
        ELSE SubSeq(s, MinOf(inked), Len(s))

categoria_of_unstripped_right(t) ==
    IF ~IsStr(t) THEN Raise("AttributeError")
    ELSE [t |-> "str", v |-> strip_left_only(split(t.v, "|")[1])]

\* t.split('|')[0].strip(); a float (a missing category) has no split.
categoria_of(t) ==
    IF ~IsStr(t) THEN Raise("AttributeError")
    ELSE [t |-> "str", v |-> strip(split(t.v, "|")[1])]

---------------------------------------------------------------------------
(* Series and frames.  A frame is a sequence of rows (records of cells); a *)
(* series is a sequence of cells.  An aggregate is a sequence of           *)
(* [label, value] entries.                                                 *)

Col(df, name) == [i \in DOMAIN df |-> df[i][name]]

\* df[mask]: the rows that satisfy the mask, in their order.
Where(df, Keep(_)) == SelectSeq(df, Keep)

dropna(col) == SelectSeq(col, notna)

\* The distinct elements of a sequence in the order of their first occurrence.
RECURSIVE Uniq(_)
Uniq(s) ==
    IF s = <<>> THEN <<>>
    ELSE LET front == SubSeq(s, 1, Len(s) - 1)
             last == s[Len(s)]
         IN  IF \E i \in DOMAIN front : front[i] = last
             THEN Uniq(front)
             ELSE Append(Uniq(front), last)

Occurrences(col, x) == Cardinality({i \in DOMAIN col : col[i] = x})

\* A stable sort by descending value.
RECURSIVE SortDesc(_)
SortDesc(s) ==
    IF s = <<>> THEN <<>>
    ELSE LET front == SortDesc(SubSeq(s, 1, Len(s) - 1))
             last == s[Len(s)]
             ahead == {i \in DOMAIN front : front[i].value >= last.value}
             k == IF ahead = {} THEN 0 ELSE MaxOf(ahead)
         IN  SubSeq(front, 1, k) \o <<last>> \o SubSeq(front, k + 1, Len(front))

\* Series.value_counts(): missing values dropped, one entry per distinct
\* value, most frequent first, ties in the order of first occurrence.
value_counts(col) ==
    LET present == dropna(col)
        labels == Uniq(present)
    IN  SortDesc([i \in DOMAIN labels |->
                    [label |-> labels[i], value |-> Occurrences(present, labels[i])]])

\* Series.head(n)
head(s, n) == SubSeq(s, 1, IF n < Len(s) THEN n ELSE Len(s))

\* s.iloc[::-1] where the code has a stop: nothing is left out.
iloc_reversed_whole(s, stop) == Reverse(s)

\* s.iloc[:stop:-1]: from the last entry down to, not including, position
\* stop (counted from 0); s.iloc[::-1] is the case stop = -1 here.
iloc_reversed_until(s, stop) ==
    LET n == IF Len(s) - (stop + 1) > 0 THEN Len(s) - (stop + 1) ELSE 0
    IN  [i \in 1..n |-> s[Len(s) - i + 1]]

\* s.iloc[::-1]
iloc_reversed(s) == iloc_reversed_until(s, -1)

\* The label of a month bucket.
MonthLabel(m) == [year |-> m \div 12, month |-> (m % 12) + 1]

\* A grouping by the month of each row, which has no empty groups.
GroupByMonth_observed_only(df) ==
    LET months == {MonthOf(df[i].ocorrencia_data) : i \in DOMAIN df}
    IN  IF df = <<>> THEN <<>>
        ELSE LET first == MinOf(months)
                 last == MaxOf(months)
                 every == [k \in 1..(last - first + 1) |->
                             [label |-> MonthLabel(first + k - 1),
                              value |-> Cardinality({i \in DOMAIN df :
                                            /\ MonthOf(df[i].ocorrencia_data) = first + k - 1
                                            /\ notna(df[i].codigo_ocorrencia)})]]
             IN  SelectSeq(every, LAMBDA b : b.value > 0)

\* groupby(pd.Grouper(key='ocorrencia_data', freq='M')).codigo_ocorrencia.count():
\* one bin per calendar month from the month of the earliest timestamp to
\* the month of the latest, each with the number of its rows whose
\* codigo_ocorrencia is present.
GroupByMonth(df) ==
    LET months == {MonthOf(df[i].ocorrencia_data) : i \in DOMAIN df}
    IN  IF df = <<>> THEN <<>>
        ELSE LET first == MinOf(months)
                 last == MaxOf(months)
             IN  [k \in 1..(last - first + 1) |->
                    [label |-> MonthLabel(first + k - 1),
                     value |-> Cardinality({i \in DOMAIN df :
                                   /\ MonthOf(df[i].ocorrencia_data) = first + k - 1
                                   /\ notna(df[i].codigo_ocorrencia)})]]

\* The sort order of the classification strings.
ClassOrder(c) ==
    CASE c = "ACIDENTE" -> 1
      [] c = "INCIDENTE" -> 2
      [] c = "INCIDENTE GRAVE" -> 3
      [] OTHER -> 4

\* A stable sort of group keys by (month, classification).
RECURSIVE SortKeys(_)
SortKeys(s) ==
    IF s = <<>> THEN <<>>
    ELSE LET front == SortKeys(SubSeq(s, 1, Len(s) - 1))
             last == s[Len(s)]
             ahead == {i \in DOMAIN front :
                          \/ front[i].month < last.month
                          \/ /\ front[i].month = last.month
                             /\ ClassOrder(front[i].class) <= ClassOrder(last.class)}
             k == IF ahead = {} THEN 0 ELSE MaxOf(ahead)
         IN  SubSeq(front, 1, k) \o <<last>> \o SubSeq(front, k + 1, Len(front))

\* Group keys for every month of the range and every classification.
GroupKeys_all_combinations(df) ==
    LET rows == SelectSeq(df, LAMBDA r : notna(r.ocorrencia_classificacao))
        months == {MonthOf(rows[i].ocorrencia_data) : i \in DOMAIN rows}
        classes == SelectSeq(<<"ACIDENTE", "INCIDENTE", "INCIDENTE GRAVE">>,
                             LAMBDA c : \E i \in DOMAIN rows :
                                            rows[i].ocorrencia_classificacao.v = c)
        nc == Len(classes)
    IN  IF rows = <<>> THEN <<>>
        ELSE [k \in 1..((MaxOf(months) - MinOf(months) + 1) * nc) |->
                 [month |-> MinOf(months) + ((k - 1) \div nc),
                  class |-> classes[((k - 1) % nc) + 1]]]

\* The group keys of a two-key groupby: the (month, classification) pairs
\* that occur in the rows; rows without classification form no group.
GroupKeys(df) ==
    LET rows == SelectSeq(df, LAMBDA r : notna(r.ocorrencia_classificacao))
    IN  SortKeys(Uniq([i \in DOMAIN rows |->
                          [month |-> MonthOf(rows[i].ocorrencia_data),
                           class |-> rows[i].ocorrencia_classificacao.v]]))

\* set_index('ocorrencia_data').groupby([pd.Grouper(freq='M'),
\* 'ocorrencia_classificacao']).codigo_ocorrencia.count()
GroupByMonthAndClass(df) ==
    LET keys == GroupKeys(df)
    IN  [k \in DOMAIN keys |->
            [label |-> MonthLabel(keys[k].month),
             class |-> keys[k].class,
             value |-> Cardinality({i \in DOMAIN df :
                           /\ MonthOf(df[i].ocorrencia_data) = keys[k].month
                           /\ notna(df[i].ocorrencia_classificacao)
                           /\ df[i].ocorrencia_classificacao.v = keys[k].class
                           /\ notna(df[i].codigo_ocorrencia)})]]

---------------------------------------------------------------------------
(* Series.describe() of a numeric column.  A statistic is a fraction       *)
(* num / den, or NaN.  The field std2 is the square of the standard        *)
(* deviation.                                                              *)

Stat(num, den) == [nan |-> FALSE, num |-> num, den |-> den]
StatNaN == [nan |-> TRUE, num |-> 0, den |-> 1]

RECURSIVE Sum(_)
Sum(s) == IF s = <<>> THEN 0 ELSE s[1] + Sum(Tail(s))

RECURSIVE SortAsc(_)
SortAsc(s) ==
    IF s = <<>> THEN <<>>
    ELSE LET front == SortAsc(SubSeq(s, 1, Len(s) - 1))
             last == s[Len(s)]
             ahead == {i \in DOMAIN front : front[i] <= last}
             k == IF ahead = {} THEN 0 ELSE MaxOf(ahead)
         IN  SubSeq(front, 1, k) \o <<last>> \o SubSeq(front, k + 1, Len(front))

\* The k-th quartile by linear interpolation between the order statistics.
Quartile(sorted, k) ==
    LET n == Len(sorted)
        lo == ((n - 1) * k) \div 4
        r == ((n - 1) * k) % 4
        hi == IF r = 0 THEN lo ELSE lo + 1
    IN  Stat(sorted[lo + 1] * (4 - r) + sorted[hi + 1] * r, 4)

\* A summary that reports zeros for a column without values.
describe_zero_for_empty(col) ==
    LET xs == [i \in DOMAIN dropna(col) |-> dropna(col)[i].v]
        n == Len(xs)
        sorted == SortAsc(xs)
    IN  IF n = 0
        THEN [count |-> 0, mean |-> Stat(0, 1), std2 |-> Stat(0, 1), min |-> Stat(0, 1),
              q25 |-> Stat(0, 1), q50 |-> Stat(0, 1), q75 |-> Stat(0, 1),
              max |-> Stat(0, 1)]
        ELSE [count |-> n,
              mean |-> Stat(Sum(xs), n),
              std2 |-> IF n = 1 THEN StatNaN
                       ELSE Stat(n * Sum([i \in DOMAIN xs |-> xs[i] * xs[i]]) - Sum(xs) * Sum(xs),
                                 n * (n - 1)),
              min |-> Stat(sorted[1], 1),
              q25 |-> Quartile(sorted, 1),
              q50 |-> Quartile(sorted, 2),
              q75 |-> Quartile(sorted, 3),
              max |-> Stat(sorted[n], 1)]

\* count, mean, std, min, quartiles and max of the values present; all but
\* the count are NaN when there is none.
describe(col) ==
    LET xs == [i \in DOMAIN dropna(col) |-> dropna(col)[i].v]
        n == Len(xs)
        sorted == SortAsc(xs)
    IN  IF n = 0
        THEN [count |-> 0, mean |-> StatNaN, std2 |-> StatNaN, min |-> StatNaN,
              q25 |-> StatNaN, q50 |-> StatNaN, q75 |-> StatNaN, max |-> StatNaN]
        ELSE [count |-> n,
              mean |-> Stat(Sum(xs), n),
              std2 |-> IF n = 1 THEN StatNaN
                       ELSE Stat(n * Sum([i \in DOMAIN xs |-> xs[i] * xs[i]]) - Sum(xs) * Sum(xs),
                                 n * (n - 1)),
              min |-> Stat(sorted[1], 1),
              q25 |-> Quartile(sorted, 1),
              q50 |-> Quartile(sorted, 2),
              q75 |-> Quartile(sorted, 3),
              max |-> Stat(sorted[n], 1)]

---------------------------------------------------------------------------
(* The content of the four resources.  pd.read_csv gives every column one  *)
(* dtype: a column of strings holds NaN for its empty cells, a column      *)
(* whose cells are all integers is int64, a column whose cells are all     *)
(* numbers is float64.  Every occurrence has a code and a date string (the *)
(* time may be absent), and the occurrence table has at least one row.     *)

FormatDate(d, m, y) ==
    <<DigitChar(d \div 10), DigitChar(d % 10), "/",
      DigitChar(m \div 10), DigitChar(m % 10), "/",
      DigitChar(y \div 1000), DigitChar((y \div 100) % 10),
      DigitChar((y \div 10) % 10), DigitChar(y % 10)>>

OcorrenciaRow(dia, hora, lat, lon, classe) ==
    [ocorrencia_dia |-> StrCell(dia),
     ocorrencia_hora |-> hora,
     ocorrencia_latitude |-> lat,
     ocorrencia_longitude |-> lon,
     ocorrencia_classificacao |-> StrCell(classe),
     ocorrencia_cidade |-> StrCell(IF classe = "ACIDENTE" THEN "BRASILIA" ELSE "MANAUS"),
     investigacao_status |-> StrCell(IF classe = "ACIDENTE" THEN "FINALIZADA" ELSE "ATIVA"),
     total_aeronaves_envolvidas |-> IntCell(IF classe = "ACIDENTE" THEN 1 ELSE 2)]

\* read_csv numbers the rows; the occurrence code is the key of the table.
WithCodigo(rows) ==
    [i \in DOMAIN rows |->
        [f \in DOMAIN rows[i] \cup {"codigo_ocorrencia"} |->
            IF f = "codigo_ocorrencia" THEN IntCell(i) ELSE rows[i][f]]]

\* Date strings: three dates, a date in year-month-day form, which the
\* format does not match, and a day its month does not have.
Dia ==
    [jan2020 |-> FormatDate(15, 1, 2020),
     mar2020 |-> FormatDate(3, 3, 2020),
     dec2019 |-> FormatDate(31, 12, 2019),
     iso |-> <<"2", "0", "2", "0", "-", "0", "1", "-", "1", "5">>,
     feb30 |-> FormatDate(30, 2, 2020)]

Hora1030 == StrCell(<<"1", "0", ":", "3", "0", ":", "0", "0">>)
Hora0000 == StrCell(Midnight)

\* Coordinate strings: '-15.24', '-51.33', '-15,24' and the filler '***'.
Coord ==
    [lat |-> CoordStr(<<"-", "1", "5", ".", "2", "4">>),
     lon |-> CoordStr(<<"-", "5", "1", ".", "3", "3">>),
     comma |-> CoordStr(<<"-", "1", "5", ",", "2", "4">>),
     stars |-> CoordStr(<<"*", "*", "*">>)]

\* Rows that differ in date, time and classification.
DatedRows ==
    {OcorrenciaRow(d, NaNchars, Coord.lat, Coord.lon, c) :
        d \in {Dia.jan2020, Dia.mar2020, Dia.dec2019, Dia.iso},
        c \in {"ACIDENTE", "INCIDENTE"}}
    \cup {OcorrenciaRow(Dia.jan2020, Hora1030, Coord.lat, Coord.lon, "ACIDENTE"),
          OcorrenciaRow(Dia.mar2020, Hora1030, Coord.lat, Coord.lon, "INCIDENTE"),
          OcorrenciaRow(Dia.jan2020, Hora0000, Coord.lat, Coord.lon, "ACIDENTE"),
          OcorrenciaRow(Dia.feb30, Hora0000, Coord.lat, Coord.lon, "ACIDENTE")}

\* Rows that differ in their coordinates (columns of strings).
LocatedRows ==
    {OcorrenciaRow(w[1], NaNchars, p[1], p[2], w[2]) :
        w \in {<<Dia.jan2020, "ACIDENTE">>, <<Dia.dec2019, "ACIDENTE">>, <<Dia.jan2020, "INCIDENTE">>},
        p \in {<<Coord.lat, Coord.lon>>, <<Coord.lat, CoordNaN>>, <<Coord.stars, Coord.lon>>}}
    \cup {OcorrenciaRow(Dia.jan2020, NaNchars, Coord.comma, Coord.lon, "ACIDENTE")}

\* Rows of a table whose latitude column is int64.
IntegerRows ==
    {OcorrenciaRow(Dia.jan2020, NaNchars, CoordInt(n), lon, "ACIDENTE") :
        n \in {-15, -16}, lon \in {Coord.lon, Coord.stars}}

\* Rows of a table whose coordinate columns are float64.
FloatRows ==
    {OcorrenciaRow(Dia.jan2020, NaNchars, lat, lon, "ACIDENTE") :
        lat \in {CoordFloat(-1524, 2), CoordNaN},
        lon \in {CoordFloat(-5133, 2), CoordNaN}}

OcorrenciaTables ==
    {WithCodigo(rows) :
        rows \in (SeqsUpTo(DatedRows, MaxOcorrencias)
                   \cup SeqsUpTo(LocatedRows, MaxOcorrencias)
                   \cup SeqsUpTo(IntegerRows, MaxOcorrencias)
                   \cup SeqsUpTo(FloatRows, MaxOcorrencias)) \ {<<>>}}

\* Occurrence types.
TipoRow(nome, categoria) ==
    [ocorrencia_tipo |-> StrCell(nome), ocorrencia_tipo_categoria |-> categoria]

\* The strings of 1 to n characters over an alphabet.
RECURSIVE Strings(_, _)
Strings(alphabet, n) ==
    IF n = 0 THEN {}
    ELSE LET shorter == Strings(alphabet, n - 1)
         IN  {<<c>> : c \in alphabet} \cup shorter
               \cup {Append(s, c) : s \in {t \in shorter : Len(t) = n - 1}, c \in alphabet}

CategoriaCells ==
    {StrCell(s) : s \in Strings({"A", " ", "|"}, MaxLen)} \cup {NaNchars}

SampleTipoRows ==
    {TipoRow("FALHA DO MOTOR EM VOO", StrCell(<<"A", " ", "|", "A">>)),
     TipoRow("FALHA DO MOTOR EM VOO", StrCell(<<"A">>)),
     TipoRow("PERDA DE CONTROLE NO SOLO", StrCell(<<"A", "A", " ", "|">>)),
     TipoRow("EXCURSAO DE PISTA", StrCell(<<"|", "A">>))}

TipoTables ==
    {<<TipoRow("FALHA DO MOTOR EM VOO", c)>> : c \in CategoriaCells}
        \cup SeqsUpTo(SampleTipoRows, MaxTipos)

\* Aircraft.
AeronaveRow(operador, fabricante, origem, destino, dano, fatalidades) ==
    [aeronave_tipo_veiculo |-> StrCell(IF fabricante = "ROBINSON" THEN "HELICOPTERO" ELSE "AVIAO"),
     aeronave_operador_categoria |-> StrCell(operador),
     aeronave_fabricante |-> StrCell(fabricante),
     aeronave_modelo |-> StrCell(IF fabricante = "ROBINSON" THEN "R44" ELSE "EMB-202"),
     aeronave_motor_quantidade |-> StrCell(IF fabricante = "ROBINSON" THEN "MONOMOTOR" ELSE "BIMOTOR"),
     aeronave_assentos |-> IF fabricante = "ROBINSON" THEN [t |-> "float", v |-> 4] ELSE NaNnum,
     aeronave_ano_fabricacao |-> [t |-> "float", v |-> IF fabricante = "ROBINSON" THEN 2008 ELSE 0],
     aeronave_voo_origem |-> StrCell(origem),
     aeronave_voo_destino |-> StrCell(destino),
     aeronave_fase_operacao |-> StrCell(IF dano = "NENHUM" THEN "DECOLAGEM" ELSE "POUSO"),
     aeronave_tipo_operacao |-> StrCell(IF operador = "REGULAR" THEN "REGULAR" ELSE "PRIVADA"),
     aeronave_nivel_dano |-> StrCell(dano),
     aeronave_fatalidades_total |-> fatalidades]

\* 'DESTRUIDA' stands for the damage level the source writes with an
\* accented I; 'FORA DE AERODROMO' and '***' are the fillers of the airdrome
\* and operator columns.
SampleAeronaveRows ==
    {AeronaveRow("***", "NEIVA", "FORA DE AERODROMO", "FORA DE AERODROMO", "NENHUM", IntCell(0)),
     AeronaveRow("PARTICULAR", "ROBINSON", "***", "FORA DE AERODROMO", "LEVE", IntCell(0)),
     AeronaveRow("REGULAR", "NEIVA", "SBSP", "SBRJ", "SUBSTANCIAL", IntCell(1)),
     AeronaveRow("PARTICULAR", "NEIVA", "SBGR", "***", "DESTRUIDA", IntCell(2)),
     AeronaveRow("TAXI AEREO", "ROBINSON", "SBSP", "SBGR", "DESTRUIDA", NaNnum),
     AeronaveRow("REGULAR", "ROBINSON", "SBBR", "SBSP", "SUBSTANCIAL", IntCell(0))}

AeronaveTables == SeqsUpTo(SampleAeronaveRows, MaxAeronaves)

\* Contributing factors.
FatorRow(area, condicionante, nome) ==
    [fator_area |-> StrCell(area),
     fator_condicionante |-> StrCell(condicionante),
     fator_nome |-> StrCell(nome)]

\* 'OPERACAO DA AERONAVE' stands for the value the source writes with a
\* cedilla and a tilde.
SampleFatorRows ==
    {FatorRow("FATOR OPERACIONAL", "OPERACAO DA AERONAVE", "JULGAMENTO DE PILOTAGEM"),
     FatorRow("FATOR OPERACIONAL", "OPERACAO DA AERONAVE", "APLICACAO DE COMANDOS"),
     FatorRow("FATOR HUMANO", "INDIVIDUAL", "ATITUDE"),
     FatorRow("FATOR HUMANO", "ORGANIZACIONAL", "CULTURA ORGANIZACIONAL"),
     FatorRow("FATOR MATERIAL", "***", "PROJETO")}

FatorTables == SeqsUpTo(SampleFatorRows, MaxFatores)

\* One table of each kind.
Sample ==
    [tipo |-> <<TipoRow("FALHA DO MOTOR EM VOO", StrCell(<<"A", " ", "|", "A">>)),
                TipoRow("EXCURSAO DE PISTA", StrCell(<<"A", "A">>))>>,
     aeronave |->
        <<AeronaveRow("***", "NEIVA", "FORA DE AERODROMO", "FORA DE AERODROMO", "NENHUM", IntCell(0)),
          AeronaveRow("REGULAR", "NEIVA", "SBSP", "SBRJ", "SUBSTANCIAL", IntCell(1))>>,
     fator |->
        <<FatorRow("FATOR OPERACIONAL", "OPERACAO DA AERONAVE", "JULGAMENTO DE PILOTAGEM"),
          FatorRow("FATOR HUMANO", "INDIVIDUAL", "ATITUDE")>>,
     ocorrencia |->
        WithCodigo(<<OcorrenciaRow(Dia.jan2020, Hora1030, Coord.lat, Coord.lon, "ACIDENTE"),
                     OcorrenciaRow(Dia.mar2020, NaNchars, Coord.stars, Coord.stars, "INCIDENTE")>>)]

\* The published content: one table varies over its bounded set while the
\* other three hold a sample.
Resources ==
    {[Sample EXCEPT !.ocorrencia = o] : o \in OcorrenciaTables}
    \cup {[Sample EXCEPT !.tipo = t] : t \in TipoTables}
    \cup {[Sample EXCEPT !.aeronave = a] : a \in AeronaveTables}
    \cup {[Sample EXCEPT !.fator = f] : f \in FatorTables}

---------------------------------------------------------------------------
(* The run: the cells of the notebook in their order.  A cell is named by  *)
(* the source line it starts at.                                           *)

Cells ==
    <<60, 63, 66, 69, 75, 84, 97, 107, 110, 114, 124, 127, 138, 148, 161, 164,
      167, 173, 182, 189, 198, 201, 215, 218, 222, 233, 237, 251, 254, 258,
      269, 273, 284, 288, 299, 308, 319, 323, 338, 341, 344, 356, 363, 366,
      369, 381, 385, 396, 400, 411, 415, 426, 430, 441, 445, 456, 462, 468,
      474, 477, 487, 490, 493, 506, 509, 512, 516, 531, 536, 547, 553, 564,
      569, 580, 585, 596, 601>>

\* The position of a cell in the run.
IndexOf(line) == CHOOSE k \in DOMAIN Cells : Cells[k] = line

NoError == [t |-> "none", exc |-> "", cell |-> 0]

Init ==
    /\ remote \in Resources
    /\ pc = 1
    /\ err = NoError
    /\ df_tipo_ocorrencia = <<>>
    /\ df_aeronave = <<>>
    /\ df_fator_contribuinte = <<>>
    /\ df_ocorrencia = <<>>
    /\ g = [n \in {} |-> <<>>]
    /\ out = <<>>

\* The run has reached the cell and no cell before it has raised.
At(line) == err = NoError /\ pc <= Len(Cells) /\ Cells[pc] = line

\* The cell has been executed to its end.
Done(line) == pc > IndexOf(line)

Step == pc' = pc + 1 /\ err' = err

\* The exception leaves the cell; the run stops there.
Fail(line, exc) == err' = [t |-> "raise", exc |-> exc, cell |-> line] /\ pc' = pc

Bind(name, value) ==
    g' = [n \in DOMAIN g \cup {name} |-> IF n = name THEN value ELSE g[n]]

Show(line, fn, data) == out' = Append(out, [cell |-> line, fn |-> fn, data |-> data])

\* A cell that displays a value or hands it to a renderer.
Present(line, fn, data) ==
    /\ At(line)
    /\ Show(line, fn, data)
    /\ Step
    /\ UNCHANGED <<remote, tables, g>>

\* A cell that assigns a name and displays nothing.
Assign(line, name, value) ==
    /\ At(line)
    /\ Bind(name, value)
    /\ Step
    /\ UNCHANGED <<remote, tables, out>>

\* A cell that assigns a name and displays a value.
AssignAndShow(line, name, value, shown) ==
    /\ At(line)
    /\ Bind(name, value)
    /\ Show(line, "display", shown)
    /\ Step
    /\ UNCHANGED <<remote, tables>>

\* pd.read_csv(url, sep=';'): the table, or the error of the transport.
Cell60 ==
    /\ At(60)
    /\ UNCHANGED <<remote, df_aeronave, df_fator_contribuinte, df_ocorrencia, g, out>>
    /\ \/ df_tipo_ocorrencia' = remote.tipo /\ Step
       \/ Fail(60, "URLError") /\ UNCHANGED df_tipo_ocorrencia

Cell63 ==
    /\ At(63)
    /\ UNCHANGED <<remote, df_tipo_ocorrencia, df_fator_contribuinte, df_ocorrencia, g, out>>
    /\ \/ df_aeronave' = remote.aeronave /\ Step
       \/ Fail(63, "URLError") /\ UNCHANGED df_aeronave

Cell66 ==
    /\ At(66)
    /\ UNCHANGED <<remote, df_tipo_ocorrencia, df_aeronave, df_ocorrencia, g, out>>
    /\ \/ df_fator_contribuinte' = remote.fator /\ Step
       \/ Fail(66, "URLError") /\ UNCHANGED df_fator_contribuinte

Cell69 ==
    /\ At(69)
    /\ UNCHANGED <<remote, df_tipo_ocorrencia, df_aeronave, df_fator_contribuinte, g, out>>
    /\ \/ df_ocorrencia' = remote.ocorrencia /\ Step
       \/ Fail(69, "URLError") /\ UNCHANGED df_ocorrencia

\* df[name] = values
WithColumn(df, name, values) ==
    [i \in DOMAIN df |->
        [f \in DOMAIN df[i] \cup {name} |-> IF f = name THEN values[i] ELSE df[i][f]]]

\* The first exception df.apply meets, rows in their order.
FirstRaised(values) == values[MinOf({i \in DOMAIN values : Raised(values[i])})]
AnyRaised(values) == \E i \in DOMAIN values : Raised(values[i])

\* The merge of date and time into ocorrencia_data.
Cell75 ==
    /\ At(75)
    /\ UNCHANGED <<remote, df_tipo_ocorrencia, df_aeronave, df_fator_contribuinte, g, out>>
    /\ LET merged == [i \in DOMAIN df_ocorrencia |-> ocorrencia_data_of(df_ocorrencia[i])]
       IN  IF AnyRaised(merged)
           THEN Fail(75, FirstRaised(merged).exc) /\ UNCHANGED df_ocorrencia
           ELSE df_ocorrencia' = WithColumn(df_ocorrencia, "ocorrencia_data", merged) /\ Step

\* clean_float over the latitude, then over the longitude.
Cell84 ==
    /\ At(84)
    /\ UNCHANGED <<remote, df_tipo_ocorrencia, df_aeronave, df_fator_contribuinte, g, out>>
    /\ LET lat == [i \in DOMAIN df_ocorrencia |-> clean_float(df_ocorrencia[i].ocorrencia_latitude)]
           lon == [i \in DOMAIN df_ocorrencia |-> clean_float(df_ocorrencia[i].ocorrencia_longitude)]
           withLat == WithColumn(df_ocorrencia, "ocorrencia_latitude", lat)
       IN  IF AnyRaised(lat)
           THEN Fail(84, FirstRaised(lat).exc) /\ UNCHANGED df_ocorrencia
           ELSE IF AnyRaised(lon)
           THEN Fail(84, FirstRaised(lon).exc) /\ df_ocorrencia' = withLat
           ELSE df_ocorrencia' = WithColumn(withLat, "ocorrencia_longitude", lon) /\ Step

\* The category before the first pipe.
Cell97 ==
    /\ At(97)
    /\ UNCHANGED <<remote, df_aeronave, df_fator_contribuinte, df_ocorrencia, g, out>>
    /\ LET cat == [i \in DOMAIN df_tipo_ocorrencia |->
                      categoria_of(df_tipo_ocorrencia[i].ocorrencia_tipo_categoria)]
       IN  IF AnyRaised(cat)
           THEN Fail(97, FirstRaised(cat).exc) /\ UNCHANGED df_tipo_ocorrencia
           ELSE df_tipo_ocorrencia' =
                    WithColumn(df_tipo_ocorrencia, "ocorrencia_tipo_categoria", cat) /\ Step

---------------------------------------------------------------------------
(* Basic data exploration: occurrences.                                    *)

Cell107 == Present(107, "info", Len(df_ocorrencia))

Cell110 ==
    AssignAndShow(110, "occurencies_in_time", GroupByMonth(df_ocorrencia),
                  GroupByMonth(df_ocorrencia))

Cell114 == Present(114, "px.line", g.occurencies_in_time)

occurrence_class == value_counts(Col(df_ocorrencia, "ocorrencia_classificacao"))

Cell124 == Present(124, "display", occurrence_class)

Cell127 == Present(127, "px.bar", iloc_reversed(occurrence_class))

\* set_index(name, inplace=True): the column moves into the index.
frame_after_set_index_inplace(df, name) ==
    [i \in DOMAIN df |-> [f \in DOMAIN df[i] \ {name} |-> df[i][f]]]

\* DataFrame.set_index returns a new frame; the frame it is called on is
\* left as it was.
frame_after_set_index(df, name) == df

Cell138 ==
    /\ At(138)
    /\ Bind("occurrence_in_time_by_class", GroupByMonthAndClass(df_ocorrencia))
    /\ Show(138, "display", GroupByMonthAndClass(df_ocorrencia))
    /\ df_ocorrencia' = frame_after_set_index(df_ocorrencia, "ocorrencia_data")
    /\ Step
    /\ UNCHANGED <<remote, df_tipo_ocorrencia, df_aeronave, df_fator_contribuinte>>

\* x, y and color of the line chart: the two index levels and the values.
Cell148 ==
    Present(148, "px.line",
            [i \in DOMAIN g.occurrence_in_time_by_class |->
                [x |-> g.occurrence_in_time_by_class[i].label,
                 y |-> g.occurrence_in_time_by_class[i].value,
                 color |-> g.occurrence_in_time_by_class[i].class]])

IsAcidente(row) == row.ocorrencia_classificacao = StrCell("ACIDENTE")

Cell161 == Assign(161, "accidents", SelectSeq(df_ocorrencia, IsAcidente))

\* datetime(2020,1,1)
DateLowerBound == Timestamp(2020, 1, 1, 0, 0, 0)

Since2020(row) == TsGE(row.ocorrencia_data, DateLowerBound)

Cell164 == Assign(164, "accidents_2020", SelectSeq(g.accidents, Since2020))

HasLatitude(row) == notna(row.ocorrencia_latitude)

Cell167 == Present(167, "display", Len(SelectSeq(g.accidents_2020, HasLatitude)))

\* folium.Marker([latitude, longitude], popup=city)
Marker(row) ==
    [location |-> <<row.ocorrencia_latitude, row.ocorrencia_longitude>>,
     popup |-> row.ocorrencia_cidade]

\* The rows the map cell iterates over.
MappedRows == SelectSeq(g.accidents_2020, HasLatitude)

\* One marker per row of accidents_2020 with a latitude.  A folium that
\* validates locations raises ValueError for a NaN in a location; one that
\* does not takes the marker as it is.
Cell173 ==
    /\ At(173)
    /\ UNCHANGED <<remote, tables, g>>
    /\ \/ /\ Show(173, "folium.Map", [i \in DOMAIN MappedRows |-> Marker(MappedRows[i])])
          /\ Step
       \/ /\ \E i \in DOMAIN MappedRows : ~notna(MappedRows[i].ocorrencia_longitude)
          /\ Fail(173, "ValueError")
          /\ UNCHANGED out

Cell182 == AssignAndShow(182, "investigation_status", value_counts(Col(df_ocorrencia, "investigacao_status")), value_counts(Col(df_ocorrencia, "investigacao_status")))

Cell189 == Present(189, "px.pie", g.investigation_status)

aircraft_involved == value_counts(Col(df_ocorrencia, "total_aeronaves_envolvidas"))

Cell198 == Present(198, "display", aircraft_involved)

Cell201 == Present(201, "px.bar", aircraft_involved)

---------------------------------------------------------------------------
(* Occurrence types.                                                       *)

Cell215 == Present(215, "info", Len(df_tipo_ocorrencia))

Cell218 == AssignAndShow(218, "most_common_occurrence_types", head(value_counts(Col(df_tipo_ocorrencia, "ocorrencia_tipo")), 10), head(value_counts(Col(df_tipo_ocorrencia, "ocorrencia_tipo")), 10))

Cell222 == Present(222, "px.bar", iloc_reversed(g.most_common_occurrence_types))

Cell233 == AssignAndShow(233, "most_common_occurrence_categories", head(value_counts(Col(df_tipo_ocorrencia, "ocorrencia_tipo_categoria")), 10), head(value_counts(Col(df_tipo_ocorrencia, "ocorrencia_tipo_categoria")), 10))

Cell237 == Present(237, "px.bar", iloc_reversed(g.most_common_occurrence_categories))

---------------------------------------------------------------------------
(* Aircraft.                                                               *)

Cell251 == Present(251, "info", Len(df_aeronave))

Cell254 == AssignAndShow(254, "aircraft_types", value_counts(Col(df_aeronave, "aeronave_tipo_veiculo")), value_counts(Col(df_aeronave, "aeronave_tipo_veiculo")))

Cell258 == Present(258, "px.bar", iloc_reversed(g.aircraft_types))

\* The chart takes aircraft_operator_type.iloc[:0:-1].
Cell269 == AssignAndShow(269, "aircraft_operator_type", value_counts(Col(df_aeronave, "aeronave_operador_categoria")), value_counts(Col(df_aeronave, "aeronave_operador_categoria")))

Cell273 == Present(273, "px.bar", iloc_reversed_until(g.aircraft_operator_type, 0))

Cell284 == AssignAndShow(284, "most_common_aircraft_makers", head(value_counts(Col(df_aeronave, "aeronave_fabricante")), 10), head(value_counts(Col(df_aeronave, "aeronave_fabricante")), 10))

Cell288 == Present(288, "px.bar", iloc_reversed(g.most_common_aircraft_makers))

\* ' '.join(row) over the maker and the model; a missing one raises TypeError.
make_and_model(row) ==
    IF IsStr(row.aeronave_fabricante) /\ IsStr(row.aeronave_modelo)
    THEN StrCell(row.aeronave_fabricante.v \o " " \o row.aeronave_modelo.v)
    ELSE Raise("TypeError")

Cell299 ==
    /\ At(299)
    /\ UNCHANGED <<remote, tables>>
    /\ LET joined == [i \in DOMAIN df_aeronave |-> make_and_model(df_aeronave[i])]
       IN  IF AnyRaised(joined)
           THEN Fail(299, FirstRaised(joined).exc) /\ UNCHANGED <<g, out>>
           ELSE /\ Bind("most_common_aircraft_make_models", head(value_counts(joined), 10))
                /\ Show(299, "display", head(value_counts(joined), 10))
                /\ Step

Cell308 == Present(308, "px.bar", iloc_reversed(g.most_common_aircraft_make_models))

Cell319 == AssignAndShow(319, "aircraft_motor_quantity", value_counts(Col(df_aeronave, "aeronave_motor_quantidade")), value_counts(Col(df_aeronave, "aeronave_motor_quantidade")))

Cell323 == Present(323, "px.bar", iloc_reversed(g.aircraft_motor_quantity))

Cell338 == Present(338, "describe", describe(Col(df_aeronave, "aeronave_assentos")))

Cell341 == Present(341, "display", value_counts(Col(df_aeronave, "aeronave_assentos")))

Cell344 == Present(344, "px.box", Col(df_aeronave, "aeronave_assentos"))

\* (ano > 0.0) & (ano < 2100.0); a comparison with NaN is false.
ValidYear(row) ==
    /\ notna(row.aeronave_ano_fabricacao)
    /\ row.aeronave_ano_fabricacao.v > 0
    /\ row.aeronave_ano_fabricacao.v < 2100

Cell356 ==
    Assign(356, "valid_year_of_fabrication",
           Col(SelectSeq(df_aeronave, ValidYear), "aeronave_ano_fabricacao"))

Cell363 == Present(363, "describe", describe(g.valid_year_of_fabrication))

Cell366 == Present(366, "display", value_counts(g.valid_year_of_fabrication))

Cell369 == Present(369, "px.box", g.valid_year_of_fabrication)

\* The chart takes most_common_origin_airdromes.iloc[:1:-1].
Cell381 == AssignAndShow(381, "most_common_origin_airdromes", head(value_counts(Col(df_aeronave, "aeronave_voo_origem")), 12), head(value_counts(Col(df_aeronave, "aeronave_voo_origem")), 12))

Cell385 == Present(385, "px.bar", iloc_reversed_until(g.most_common_origin_airdromes, 1))

\* The chart takes most_common_destination_airdromes.iloc[:1:-1].
Cell396 == AssignAndShow(396, "most_common_destination_airdromes", head(value_counts(Col(df_aeronave, "aeronave_voo_destino")), 12), head(value_counts(Col(df_aeronave, "aeronave_voo_destino")), 12))

Cell400 == Present(400, "px.bar", iloc_reversed_until(g.most_common_destination_airdromes, 1))

Cell411 == AssignAndShow(411, "operational_phases", head(value_counts(Col(df_aeronave, "aeronave_fase_operacao")), 10), head(value_counts(Col(df_aeronave, "aeronave_fase_operacao")), 10))

Cell415 == Present(415, "px.bar", iloc_reversed(g.operational_phases))

Cell426 == AssignAndShow(426, "operation_type", value_counts(Col(df_aeronave, "aeronave_tipo_operacao")), value_counts(Col(df_aeronave, "aeronave_tipo_operacao")))

Cell430 == Present(430, "px.bar", iloc_reversed(g.operation_type))

Cell441 == AssignAndShow(441, "damage_level", value_counts(Col(df_aeronave, "aeronave_nivel_dano")), value_counts(Col(df_aeronave, "aeronave_nivel_dano")))

Cell445 == Present(445, "px.bar", iloc_reversed(g.damage_level))

Cell456 == Present(456, "display", value_counts(Col(df_aeronave, "aeronave_fatalidades_total")))

\* aeronave_nivel_dano != 'NENHUM': true of a missing damage level too.
Damaged(row) == row.aeronave_nivel_dano # StrCell("NENHUM")

Cell462 ==
    Present(462, "display",
            value_counts(Col(SelectSeq(df_aeronave, Damaged), "aeronave_fatalidades_total")))

\* ~aeronave_nivel_dano.isin(['NENHUM', 'LEVE'])
SubstantialOrMore(row) ==
    row.aeronave_nivel_dano \notin {StrCell("NENHUM"), StrCell("LEVE")}

Cell468 ==
    AssignAndShow(468, "substantial_damage_or_more",
                  Col(SelectSeq(df_aeronave, SubstantialOrMore), "aeronave_fatalidades_total"),
                  value_counts(Col(SelectSeq(df_aeronave, SubstantialOrMore),
                                   "aeronave_fatalidades_total")))

Cell474 == Present(474, "describe", describe(g.substantial_damage_or_more))

Cell477 == Present(477, "px.box", g.substantial_damage_or_more)

Destroyed(row) == row.aeronave_nivel_dano = StrCell("DESTRUIDA")

Cell487 ==
    Assign(487, "fatalities_aircraft_destroyed",
           Col(SelectSeq(df_aeronave, Destroyed), "aeronave_fatalidades_total"))

Cell490 == Present(490, "describe", describe(g.fatalities_aircraft_destroyed))

Cell493 == Present(493, "px.box", g.fatalities_aircraft_destroyed)

---------------------------------------------------------------------------
(* Contributing factors.                                                   *)

Cell506 == Present(506, "info", Len(df_fator_contribuinte))

Cell509 == Present(509, "display", df_fator_contribuinte)

Cell512 == AssignAndShow(512, "contributing_factor_area", value_counts(Col(df_fator_contribuinte, "fator_area")), value_counts(Col(df_fator_contribuinte, "fator_area")))

Cell516 == Present(516, "px.bar", iloc_reversed(g.contributing_factor_area))

\* df[df.fator_area == area]
WithArea(df, area) == SelectSeq(df, LAMBDA row : row.fator_area = StrCell(area))

\* df[df.fator_condicionante == conditioning]
WithConditioning(df, conditioning) ==
    SelectSeq(df, LAMBDA row : row.fator_condicionante = StrCell(conditioning))

Cell531 ==
    AssignAndShow(531, "operational_factor_conditioning", WithArea(df_fator_contribuinte, "FATOR OPERACIONAL"),
                  value_counts(Col(WithArea(df_fator_contribuinte, "FATOR OPERACIONAL"), "fator_condicionante")))

Cell536 ==
    Present(536, "px.bar", iloc_reversed(value_counts(Col(g.operational_factor_conditioning, "fator_condicionante"))))

Cell547 ==
    AssignAndShow(547, "aircraft_operation", WithConditioning(g.operational_factor_conditioning, "OPERACAO DA AERONAVE"),
                  value_counts(Col(WithConditioning(g.operational_factor_conditioning, "OPERACAO DA AERONAVE"), "fator_nome")))

Cell553 ==
    Present(553, "px.bar", iloc_reversed(head(value_counts(Col(g.aircraft_operation, "fator_nome")), 10)))

Cell564 ==
    AssignAndShow(564, "human_factor_conditioning", WithArea(df_fator_contribuinte, "FATOR HUMANO"),
                  value_counts(Col(WithArea(df_fator_contribuinte, "FATOR HUMANO"), "fator_condicionante")))

Cell569 ==
    Present(569, "px.bar", iloc_reversed(value_counts(Col(g.human_factor_conditioning, "fator_condicionante"))))

Cell580 ==
    AssignAndShow(580, "individual_factors", WithConditioning(g.human_factor_conditioning, "INDIVIDUAL"),
                  value_counts(Col(WithConditioning(g.human_factor_conditioning, "INDIVIDUAL"), "fator_nome")))

Cell585 ==
    Present(585, "px.bar", iloc_reversed(value_counts(Col(g.individual_factors, "fator_nome"))))

Cell596 ==
    AssignAndShow(596, "organisational_factors", WithConditioning(g.human_factor_conditioning, "ORGANIZACIONAL"),
                  value_counts(Col(WithConditioning(g.human_factor_conditioning, "ORGANIZACIONAL"), "fator_nome")))

Cell601 ==
    Present(601, "px.bar", iloc_reversed(value_counts(Col(g.organisational_factors, "fator_nome"))))

---------------------------------------------------------------------------

Next ==
    \/ Cell60 \/ Cell63 \/ Cell66 \/ Cell69 \/ Cell75 \/ Cell84
    \/ Cell97 \/ Cell107 \/ Cell110 \/ Cell114 \/ Cell124 \/ Cell127
    \/ Cell138 \/ Cell148 \/ Cell161 \/ Cell164 \/ Cell167 \/ Cell173
    \/ Cell182 \/ Cell189 \/ Cell198 \/ Cell201 \/ Cell215 \/ Cell218
    \/ Cell222 \/ Cell233 \/ Cell237 \/ Cell251 \/ Cell254 \/ Cell258
    \/ Cell269 \/ Cell273 \/ Cell284 \/ Cell288 \/ Cell299 \/ Cell308
    \/ Cell319 \/ Cell323 \/ Cell338 \/ Cell341 \/ Cell344 \/ Cell356
    \/ Cell363 \/ Cell366 \/ Cell369 \/ Cell381 \/ Cell385 \/ Cell396
    \/ Cell400 \/ Cell411 \/ Cell415 \/ Cell426 \/ Cell430 \/ Cell441
    \/ Cell445 \/ Cell456 \/ Cell462 \/ Cell468 \/ Cell474 \/ Cell477
    \/ Cell487 \/ Cell490 \/ Cell493 \/ Cell506 \/ Cell509 \/ Cell512
    \/ Cell516 \/ Cell531 \/ Cell536 \/ Cell547 \/ Cell553 \/ Cell564
    \/ Cell569 \/ Cell580 \/ Cell585 \/ Cell596 \/ Cell601

Spec == Init /\ [][Next]_vars
---------------------------------------------------------------------------
(* Properties of the run.                                                  *)

\* What a cell displayed or handed to a renderer.
Shown(line) == out[CHOOSE k \in DOMAIN out : out[k].cell = line].data
HasShown(line) == \E k \in DOMAIN out : out[k].cell = line

\* The cell has been entered: executed to its end, or left by an exception.
Attempted(line) == Done(line) \/ err.cell = line

RowsInMonth(m) ==
    {i \in DOMAIN df_ocorrencia : MonthOf(df_ocorrencia[i].ocorrencia_data) = m}

ObservedMonths == {MonthOf(df_ocorrencia[i].ocorrencia_data) : i \in DOMAIN df_ocorrencia}

MonthNumber(label) == label.year * 12 + label.month - 1

\* C1: the monthly count has exactly one entry for every calendar month
\* from the month of the earliest timestamp to the month of the latest, in
\* order, each with the number of occurrences of that month, which is 0 for
\* a month without occurrences.
C1_EveryMonthOnce ==
    Done(110) =>
        LET s == g.occurencies_in_time
            first == MinOf(ObservedMonths)
            last == MaxOf(ObservedMonths)
        IN  /\ Len(s) = last - first + 1
            /\ \A m \in first..last :
                  /\ Cardinality({k \in DOMAIN s : MonthNumber(s[k].label) = m}) = 1
                  /\ \A k \in DOMAIN s :
                        MonthNumber(s[k].label) = m => s[k].value = Cardinality(RowsInMonth(m))
            /\ \A k \in DOMAIN s : s[k].label.month \in 1..12

\* C1, witness: occurrences in January and March only, and an entry for
\* February with count 0.
C1_GapMonthCounted ==
    /\ Done(110)
    /\ \E k \in DOMAIN g.occurencies_in_time :
          /\ g.occurencies_in_time[k].value = 0
          /\ g.occurencies_in_time[k].label = [year |-> 2020, month |-> 2]

ObservedClasses ==
    {df_ocorrencia[i].ocorrencia_classificacao.v :
        i \in {j \in DOMAIN df_ocorrencia : notna(df_ocorrencia[j].ocorrencia_classificacao)}}

RowsInMonthOfClass(m, c) ==
    {i \in RowsInMonth(m) : df_ocorrencia[i].ocorrencia_classificacao = StrCell(c)}

EntriesFor(m, c) ==
    {k \in DOMAIN g.occurrence_in_time_by_class :
        /\ MonthNumber(g.occurrence_in_time_by_class[k].label) = m
        /\ g.occurrence_in_time_by_class[k].class = c}

\* C2 as stated: every month of the monthly count is represented for every
\* observed classification, with count 0 where none of its occurrences
\* falls in the month.
C2_EveryMonthForEveryClass ==
    Done(138) =>
        \A k \in DOMAIN g.occurencies_in_time : \A c \in ObservedClasses :
            LET m == MonthNumber(g.occurencies_in_time[k].label)
            IN  \E j \in EntriesFor(m, c) :
                    g.occurrence_in_time_by_class[j].value = Cardinality(RowsInMonthOfClass(m, c))

\* C2 as amended: the grouped count has exactly one entry for each (month,
\* classification) pair in which at least one occurrence falls, with that
\* number as its count, and no entry for any other pair.
C2_ObservedPairsOnly ==
    Done(138) =>
        /\ \A k \in DOMAIN g.occurencies_in_time : \A c \in ObservedClasses :
              LET m == MonthNumber(g.occurencies_in_time[k].label)
                  n == Cardinality(RowsInMonthOfClass(m, c))
              IN  /\ n > 0 => /\ Cardinality(EntriesFor(m, c)) = 1
                              /\ \A j \in EntriesFor(m, c) :
                                    g.occurrence_in_time_by_class[j].value = n
                  /\ n = 0 => EntriesFor(m, c) = {}
        /\ \A j \in DOMAIN g.occurrence_in_time_by_class :
              /\ g.occurrence_in_time_by_class[j].value > 0
              /\ g.occurrence_in_time_by_class[j].class \in ObservedClasses
              /\ MonthNumber(g.occurrence_in_time_by_class[j].label) \in ObservedMonths

\* C2, witness: a month of the monthly count and an observed classification
\* without an entry in the grouped count.
C2_PairWithoutEntry ==
    /\ Done(138)
    /\ \E k \in DOMAIN g.occurencies_in_time : \E c \in ObservedClasses :
          /\ g.occurencies_in_time[k].value > 0
          /\ EntriesFor(MonthNumber(g.occurencies_in_time[k].label), c) = {}

\* The rows the claim wants on the map.
Mappable(row) ==
    /\ row.ocorrencia_classificacao = StrCell("ACIDENTE")
    /\ TsGE(row.ocorrencia_data, DateLowerBound)
    /\ notna(row.ocorrencia_latitude)
    /\ notna(row.ocorrencia_longitude)

\* C3: the map cell emits a point for exactly the rows that are accidents,
\* at or after the date lower bound, with latitude and longitude defined;
\* no emitted point has an undefined coordinate.
C3_MapPointsHaveBothCoordinates ==
    Attempted(173) =>
        LET wanted == SelectSeq(df_ocorrencia, Mappable)
            emitted == IF HasShown(173) THEN Shown(173) ELSE <<>>
        IN  /\ emitted = [i \in DOMAIN wanted |-> Marker(wanted[i])]
            /\ \A i \in DOMAIN emitted :
                  notna(emitted[i].location[1]) /\ notna(emitted[i].location[2])

HasAsterisk(s) == \E i \in DOMAIN s : s[i] = "*"

CleanedAsClaimed(raw, clean) ==
    /\ raw.t \in {"int", "float", "nan"} => clean = raw
    /\ (raw.t = "str" /\ HasAsterisk(raw.s)) => clean = CoordNaN

\* C4: the coordinate cleanup raises for no cell; a numeric cell (integer
\* or float) comes out unchanged and a string that is no number comes out
\* as the missing marker.
C4_CleanFloatIsTotal ==
    Attempted(84) =>
        /\ err = NoError
        /\ \A i \in DOMAIN df_ocorrencia :
              /\ CleanedAsClaimed(remote.ocorrencia[i].ocorrencia_latitude,
                                  df_ocorrencia[i].ocorrencia_latitude)
              /\ CleanedAsClaimed(remote.ocorrencia[i].ocorrencia_longitude,
                                  df_ocorrencia[i].ocorrencia_longitude)

\* A date string of the form dd/mm/yyyy that names a day of the calendar.
WellFormedDate(s) ==
    /\ Len(s) = 10
    /\ s[3] = "/" /\ s[6] = "/"
    /\ \A i \in {1, 2, 4, 5, 7, 8, 9, 10} : s[i] \in Digits
    /\ Number(SubSeq(s, 4, 5)) \in 1..12
    /\ Number(SubSeq(s, 7, 10)) >= 1
    /\ Number(SubSeq(s, 1, 2)) \in
          1..DaysInMonth(Number(SubSeq(s, 7, 10)), Number(SubSeq(s, 4, 5)))

MidnightOf(s) ==
    Timestamp(Number(SubSeq(s, 7, 10)), Number(SubSeq(s, 4, 5)), Number(SubSeq(s, 1, 2)),
              0, 0, 0)

\* C5: a row with a well-formed date and a time that is absent or no string
\* gets the midnight of its date, the timestamp of a row with the same date
\* and the time '00:00:00'.
C5_AbsentTimeIsMidnight ==
    Done(75) =>
        \A i \in DOMAIN df_ocorrencia :
            LET raw == remote.ocorrencia[i]
            IN  (WellFormedDate(raw.ocorrencia_dia.v) /\ ~IsStr(raw.ocorrencia_hora)) =>
                    /\ df_ocorrencia[i].ocorrencia_data = MidnightOf(raw.ocorrencia_dia.v)
                    /\ \A j \in DOMAIN df_ocorrencia :
                          (/\ remote.ocorrencia[j].ocorrencia_dia = raw.ocorrencia_dia
                           /\ remote.ocorrencia[j].ocorrencia_hora = Hora0000)
                          => df_ocorrencia[j].ocorrencia_data = df_ocorrencia[i].ocorrencia_data

\* C5, witness: a merged table with a row without time and a row of the
\* same date with the time '00:00:00'.
C5_AbsentAndMidnightMerged ==
    /\ Done(75)
    /\ \E i, j \in DOMAIN df_ocorrencia :
          /\ ~IsStr(remote.ocorrencia[i].ocorrencia_hora)
          /\ remote.ocorrencia[j].ocorrencia_hora = Hora0000
          /\ remote.ocorrencia[j].ocorrencia_dia = remote.ocorrencia[i].ocorrencia_dia

\* The text before the first pipe of a string.
BeforePipe(s) == SubSeq(s, 1, Find(s, "|") - 1)

\* r is p without its leading and trailing whitespace.
IsTrimOf(r, p) ==
    /\ r # <<>> => r[1] # " " /\ r[Len(r)] # " "
    /\ \E a \in 0..Len(p) :
          /\ a + Len(r) <= Len(p)
          /\ r = SubSeq(p, a + 1, a + Len(r))
          /\ \A i \in DOMAIN p : (i <= a \/ i > a + Len(r)) => p[i] = " "

CategoryIsTrimmedPrefix(i) ==
    LET raw == remote.tipo[i].ocorrencia_tipo_categoria.v
        cat == df_tipo_ocorrencia[i].ocorrencia_tipo_categoria
    IN  /\ cat.t = "str"
        /\ IsTrimOf(cat.v, BeforePipe(raw))
        /\ Find(raw, "|") > Len(raw) => IsTrimOf(cat.v, raw)

\* C6 as stated: after the extraction every category is a non-empty string,
\* the trimmed text before the first pipe.
C6_CategoryNonEmpty ==
    Done(97) =>
        \A i \in DOMAIN df_tipo_ocorrencia :
            /\ CategoryIsTrimmedPrefix(i)
            /\ df_tipo_ocorrencia[i].ocorrencia_tipo_categoria.v # <<>>

\* C6 as amended: after the extraction every category is a string, the
\* trimmed text before the first pipe (the trimmed raw value when there is
\* no pipe); it is empty exactly when that text is empty or whitespace.
C6_CategoryIsTrimmedPrefix ==
    Done(97) =>
        \A i \in DOMAIN df_tipo_ocorrencia :
            /\ CategoryIsTrimmedPrefix(i)
            /\ df_tipo_ocorrencia[i].ocorrencia_tipo_categoria.v = <<>>
                  <=> \A k \in DOMAIN BeforePipe(remote.tipo[i].ocorrencia_tipo_categoria.v) :
                         BeforePipe(remote.tipo[i].ocorrencia_tipo_categoria.v)[k] = " "

\* C6, witness: an extracted table with an empty category and with a
\* category cut at its pipe and trimmed.
C6_EmptyAndTrimmedCategories ==
    /\ Done(97)
    /\ \E i, j \in DOMAIN df_tipo_ocorrencia :
          /\ df_tipo_ocorrencia[i].ocorrencia_tipo_categoria.v = <<>>
          /\ df_tipo_ocorrencia[j].ocorrencia_tipo_categoria.v = <<"A", "A">>
          /\ remote.tipo[j].ocorrencia_tipo_categoria.v = <<"A", "A", " ", "|">>

NoDefinedValue(col) == \A i \in DOMAIN col : ~notna(col[i])

\* C7 as stated: the statistics of a column without defined values fail
\* with EmptyColumnError; no summary is produced and nothing is charted.
C7_EmptyColumnFails ==
    (Attempted(490) /\ NoDefinedValue(g.fatalities_aircraft_destroyed)) =>
        /\ err.cell = 490
        /\ err.exc = "EmptyColumnError"
        /\ ~HasShown(490)
        /\ ~HasShown(493)

EmptySummary ==
    [count |-> 0, mean |-> StatNaN, std2 |-> StatNaN, min |-> StatNaN,
     q25 |-> StatNaN, q50 |-> StatNaN, q75 |-> StatNaN, max |-> StatNaN]

DescribedEmpty(describeCell, boxCell, col) ==
    /\ (Attempted(describeCell) /\ NoDefinedValue(col)) =>
          /\ err = NoError
          /\ HasShown(describeCell)
          /\ Shown(describeCell) = EmptySummary
    /\ (Attempted(boxCell) /\ NoDefinedValue(col)) =>
          /\ err = NoError
          /\ HasShown(boxCell)
          /\ Shown(boxCell) = col

\* C7 as amended: the statistics of a column without defined values raise
\* nothing: the summary has count 0 and every other statistic undefined,
\* and the box chart is handed the column all the same.
C7_EmptyColumnDescribed ==
    /\ Done(487) => DescribedEmpty(490, 493, g.fatalities_aircraft_destroyed)
    /\ Done(468) => DescribedEmpty(474, 477, g.substantial_damage_or_more)
    /\ Done(356) => DescribedEmpty(363, 369, g.valid_year_of_fabrication)
    /\ Done(251) => DescribedEmpty(338, 344, Col(df_aeronave, "aeronave_assentos"))

\* C7, witness: no destroyed aircraft among the rows, and the summary and
\* the box chart of their fatalities produced.
C7_NoDestroyedAircraftCharted ==
    /\ Done(493)
    /\ df_aeronave # <<>>
    /\ g.fatalities_aircraft_destroyed = <<>>

HasBadDate ==
    \E i \in DOMAIN remote.ocorrencia :
        /\ IsStr(remote.ocorrencia[i].ocorrencia_dia)
        /\ ~WellFormedDate(remote.ocorrencia[i].ocorrencia_dia.v)

\* C8: with a date string that is no day/month/year date among the loaded
\* rows, the run never gets past the timestamp merge: the merge raises
\* ValueError, nothing is displayed or charted, no name is assigned and no
\* table is changed.
C8_BadDateStopsRun ==
    (HasBadDate /\ Done(69)) =>
        /\ pc = IndexOf(75)
        /\ err # NoError => (err.cell = 75 /\ err.exc = "ValueError")
        /\ out = <<>>
        /\ DOMAIN g = {}
        /\ df_ocorrencia = remote.ocorrencia
        /\ df_tipo_ocorrencia = remote.tipo

\* C8, witness: the merge has raised on a table with a bad date.
C8_MergeRaised ==
    /\ HasBadDate
    /\ err.cell = 75
    /\ err.exc = "ValueError"

\* C9 as stated: once the four tables are loaded, no step changes a table.
C9_TablesFrozenAfterLoad ==
    [][Done(69) => tables' = tables]_vars

\* C9 as amended: once the four tables are loaded, only the three cleanup
\* cells change a table: no step after them changes any table, and the
\* aircraft and contributing-factor tables never change after their load.
C9_TablesFrozenAfterCleanup ==
    [][/\ Done(97) => tables' = tables
       /\ Done(69) => /\ df_aeronave' = df_aeronave
                      /\ df_fator_contribuinte' = df_fator_contribuinte
                      /\ (df_ocorrencia' # df_ocorrencia => pc \in {IndexOf(75), IndexOf(84)})
                      /\ (df_tipo_ocorrencia' # df_tipo_ocorrencia => pc = IndexOf(97))]_vars

\* C9, witness: the grouped count computed, on tables the cleanup changed.
C9_AggregatedAfterCleanup ==
    /\ Done(138)
    /\ df_ocorrencia # remote.ocorrencia
    /\ df_tipo_ocorrencia # remote.tipo
    /\ df_aeronave = remote.aeronave

\* The aggregate a bar chart is built from.
BarSource(line) ==
    CASE line = 127 -> occurrence_class
      [] line = 201 -> aircraft_involved
      [] line = 222 -> g.most_common_occurrence_types
      [] line = 237 -> g.most_common_occurrence_categories
      [] line = 258 -> g.aircraft_types
      [] line = 273 -> g.aircraft_operator_type
      [] line = 288 -> g.most_common_aircraft_makers
      [] line = 308 -> g.most_common_aircraft_make_models
      [] line = 323 -> g.aircraft_motor_quantity
      [] line = 385 -> g.most_common_origin_airdromes
      [] line = 400 -> g.most_common_destination_airdromes
      [] line = 415 -> g.operational_phases
      [] line = 430 -> g.operation_type
      [] line = 445 -> g.damage_level
      [] line = 516 -> g.contributing_factor_area
      [] line = 536 -> value_counts(Col(g.operational_factor_conditioning, "fator_condicionante"))
      [] line = 553 -> head(value_counts(Col(g.aircraft_operation, "fator_nome")), 10)
      [] line = 569 -> value_counts(Col(g.human_factor_conditioning, "fator_condicionante"))
      [] line = 585 -> value_counts(Col(g.individual_factors, "fator_nome"))
      [] line = 601 -> value_counts(Col(g.organisational_factors, "fator_nome"))

BarCharts == {k \in DOMAIN out : out[k].fn = "px.bar"}

\* C10 as stated: every bar chart is handed exactly the entries of its
\* aggregate, none dropped and none added.
C10_BarChartsKeepEveryEntry ==
    \A k \in BarCharts :
        /\ Len(out[k].data) = Len(BarSource(out[k].cell))
        /\ Range(out[k].data) = Range(BarSource(out[k].cell))

\* The leading entries of its aggregate a bar chart leaves out.
Omitted(line) ==
    CASE line = 273 -> 1
      [] line \in {385, 400} -> 2
      [] OTHER -> 0

\* C10 as amended: every bar chart is handed entries of its aggregate only,
\* in reversed order (the chart of the aircraft involved in the order of
\* the aggregate), and all of them, except that the operator-type chart
\* leaves out the first entry of its aggregate and the origin and
\* destination airdrome charts leave out the first two.
C10_BarChartsReshape ==
    \A k \in BarCharts :
        LET src == BarSource(out[k].cell)
            kept == SubSeq(src, Omitted(out[k].cell) + 1, Len(src))
        IN  out[k].data = IF out[k].cell = 201 THEN kept ELSE Reverse(kept)

\* C10, witness: the operator-type chart and the origin chart drawn with
\* entries, each with fewer entries than its aggregate.
C10_ChartsWithOmissions ==
    /\ Done(400)
    /\ Shown(273) # <<>>
    /\ Shown(385) # <<>>
    /\ Len(Shown(273)) < Len(g.aircraft_operator_type)
    /\ Len(Shown(385)) < Len(g.most_common_origin_airdromes)

===========================================================================
